---- MODULE Spec2Model ----
(***************************************************************************)
(* Flight search pipeline of app.py: FlightBookingAgent (date formatting,  *)
(* search URL, Firecrawl extraction, agent recommendation) and the         *)
(* Streamlit script main() with its session state.                         *)
(*                                                                         *)
(* A Python str is a sequence of one-character strings; a literal chunk of *)
(* an f-string or of the URL template is kept as one element.              *)
(***************************************************************************)
EXTENDS Integers, Sequences, FiniteSets, TLC

\* ------------------------------------------------------------------ bounds

\* Longest flights list a provider response carries.
MaxOffers == 1
\* Largest passenger count entered (the form allows 1..10).
MaxAdults == 2
\* Month and day numbers written into the date inputs run from 0 to these.
MaxMonthInput == 13
MaxDayInput == 32

\* ------------------------------------------------------------- characters

UpperChars == <<"A","B","C","D","E","F","G","H","I","J","K","L","M",
                "N","O","P","Q","R","S","T","U","V","W","X","Y","Z">>
LowerChars == <<"a","b","c","d","e","f","g","h","i","j","k","l","m",
                "n","o","p","q","r","s","t","u","v","w","x","y","z">>
DigitChars == <<"0","1","2","3","4","5","6","7","8","9">>

IsIn(seq, c) == \E i \in 1..Len(seq) : seq[i] = c
IndexOf(seq, c) == CHOOSE i \in 1..Len(seq) : seq[i] = c

\* str.lower() / str.upper()
lower(s) == [i \in 1..Len(s) |->
               IF IsIn(UpperChars, s[i]) THEN LowerChars[IndexOf(UpperChars, s[i])] ELSE s[i]]
upper(s) == [i \in 1..Len(s) |->
               IF IsIn(LowerChars, s[i]) THEN UpperChars[IndexOf(LowerChars, s[i])] ELSE s[i]]

\* str(n) of a non-negative int, as format() interpolates {adults}
RECURSIVE str(_)
str(n) == IF n < 10 THEN <<DigitChars[n + 1]>> ELSE str(n \div 10) \o <<DigitChars[(n % 10) + 1]>>

\* ------------------------------------------------------------------ dates

IsDigit(c) == IsIn(DigitChars, c)
DigitVal(c) == IndexOf(DigitChars, c) - 1

RECURSIVE int(_)
int(s) == IF Len(s) = 0 THEN 0 ELSE 10 * int(SubSeq(s, 1, Len(s) - 1)) + DigitVal(s[Len(s)])

\* strptime's regex for %Y : \d\d\d\d
MatchY(s) == Len(s) = 4 /\ \A i \in 1..4 : IsDigit(s[i])
\* strptime's regex for %m : 1[0-2]|0[1-9]|[1-9]
MatchM(s) ==
    \/ Len(s) = 2 /\ s[1] = "1" /\ s[2] \in {"0","1","2"}
    \/ Len(s) = 2 /\ s[1] = "0" /\ IsDigit(s[2]) /\ s[2] # "0"
    \/ Len(s) = 1 /\ IsDigit(s[1]) /\ s[1] # "0"
\* strptime's regex for %d : 3[0-1]|[1-2]\d|0[1-9]|[1-9]| [1-9]
MatchD(s) ==
    \/ Len(s) = 2 /\ s[1] = "3" /\ s[2] \in {"0","1"}
    \/ Len(s) = 2 /\ s[1] \in {"1","2"} /\ IsDigit(s[2])
    \/ Len(s) = 2 /\ s[1] = "0" /\ IsDigit(s[2]) /\ s[2] # "0"
    \/ Len(s) = 1 /\ IsDigit(s[1]) /\ s[1] # "0"
    \/ Len(s) = 2 /\ s[1] = " " /\ IsDigit(s[2]) /\ s[2] # "0"

IsLeap(y) == (y % 4 = 0 /\ y % 100 # 0) \/ y % 400 = 0
\* DaysInMonth without the leap day
DaysInMonthNoLeap(y, m) ==
    IF m = 2 THEN 28 ELSE IF m \in {4, 6, 9, 11} THEN 30 ELSE 31

DaysInMonth(y, m) ==
    IF m = 2 THEN (IF IsLeap(y) THEN 29 ELSE 28)
    ELSE IF m \in {4, 6, 9, 11} THEN 30 ELSE 31

NoDate == [ok |-> FALSE, year |-> 0, month |-> 0, day |-> 0]

\* datetime.strptime(date_str, "%Y-%m-%d"): the whole string must match
\* <Y>-<m>-<d>, and the numbers must make a date of datetime's calendar
\* (year >= 1); anything else is a ValueError (ok = FALSE).
strptime(date_str) ==
    LET n == Len(date_str)
        fits(ml) ==
            /\ n >= 7 + ml
            /\ n <= 8 + ml
            /\ MatchY(SubSeq(date_str, 1, 4))
            /\ date_str[5] = "-"
            /\ MatchM(SubSeq(date_str, 6, 5 + ml))
            /\ date_str[6 + ml] = "-"
            /\ MatchD(SubSeq(date_str, 7 + ml, n))
        dayField(ml) == SubSeq(date_str, 7 + ml, n)
        dayDigits(ml) == IF dayField(ml)[1] = " " THEN Tail(dayField(ml)) ELSE dayField(ml)
        parsed(ml) == [ok |-> TRUE,
                       year |-> int(SubSeq(date_str, 1, 4)),
                       month |-> int(SubSeq(date_str, 6, 5 + ml)),
                       day |-> int(dayDigits(ml))]
        checked(t) == IF t.year >= 1 /\ t.day <= DaysInMonth(t.year, t.month) THEN t ELSE NoDate
    IN  IF fits(2) THEN checked(parsed(2))
        ELSE IF fits(1) THEN checked(parsed(1))
        ELSE NoDate

Pad2(k) == <<DigitChars[(k \div 10) + 1], DigitChars[(k % 10) + 1]>>

\* .strftime("%d%m%y")
strftime(t) == Pad2(t.day) \o Pad2(t.month) \o Pad2(t.year % 100)

\* _format_date falling back to a fixed date instead of raising
format_date_fallback(date_str) ==
    LET t == strptime(date_str)
    IN  IF t.ok THEN [raised |-> FALSE, value |-> strftime(t)]
        ELSE [raised |-> FALSE, value |-> <<"0","1","0","1","0","0">>]

\* _format_date: the formatted string, or raised = TRUE for the ValueError
format_date(date_str) ==
    LET t == strptime(date_str)
    IN  IF t.ok THEN [raised |-> FALSE, value |-> strftime(t)]
        ELSE [raised |-> TRUE, value |-> <<>>]

\* ------------------------------------------------- provider responses

\* FlightData-shaped objects of a response
Offer1 == [airline |-> "IndiGo", flight_number |-> "6E2024", departure_time |-> "06:10",
           arrival_time |-> "07:25", duration |-> "1h 15m", stops |-> 0, price |-> "INR 4500"]
Offer2 == [airline |-> "Air India", flight_number |-> "AI431", departure_time |-> "09:00",
           arrival_time |-> "11:40", duration |-> "2h 40m", stops |-> 1, price |-> "INR 3900"]
Offers == {Offer1, Offer2}

RECURSIVE SeqsUpTo(_, _)
SeqsUpTo(S, n) ==
    IF n = 0 THEN {<<>>}
    ELSE SeqsUpTo(S, n - 1) \cup {Append(s, x) : s \in {q \in SeqsUpTo(S, n - 1) : Len(q) = n - 1}, x \in S}

OfferLists == SeqsUpTo(Offers, MaxOffers)

\* The value under 'flights': the key absent, null, or a list.
FlightsAbsent == [kind |-> "absent", items |-> <<>>]
FlightsValues ==
    {FlightsAbsent, [kind |-> "None", items |-> <<>>]}
        \cup {[kind |-> "list", items |-> l] : l \in OfferLists}

\* The value under 'data': the key absent, null, or a dict that may hold 'flights'.
DataAbsent == [kind |-> "absent", flights |-> FlightsAbsent]
DataNone == [kind |-> "None", flights |-> FlightsAbsent]
EmptyDict == [kind |-> "dict", flights |-> FlightsAbsent]
DataValues == {DataAbsent, DataNone} \cup {[kind |-> "dict", flights |-> f] : f \in FlightsValues}

\* What firecrawl.extract does: raises, returns something that is no dict
\* (None), or returns a dict with 'success' absent, False or True.
NoResponse == [kind |-> "not called", success |-> "absent", data |-> DataAbsent]
ProviderOutcomes ==
    {[kind |-> "raise", success |-> "absent", data |-> DataAbsent],
     [kind |-> "None", success |-> "absent", data |-> DataAbsent]}
        \cup {[kind |-> "dict", success |-> s, data |-> d] :
                 s \in {"absent", "False", "True"}, d \in DataValues}

\* a test for None in place of the truth value
TruthyNotNone(v) == v.kind = "list"

\* bool(v) of a flights value: None and [] are falsy
Truthy(v) == v.kind = "list" /\ Len(v.items) > 0

\* _fetch_flight_data without the test of 'success'
fetch_flight_data_unchecked(response) ==
    IF response.kind # "dict" THEN EmptyDict
    ELSE IF response.data.kind = "absent" THEN EmptyDict ELSE response.data

\* _fetch_flight_data: every exception of the try block is caught, so the
\* result is response['data'] (the default {} only when the key is absent)
\* on a truthy 'success', and {} otherwise.
fetch_flight_data(response) ==
    IF response.kind = "raise" THEN EmptyDict
    ELSE IF response.kind # "dict" THEN EmptyDict
    ELSE IF response.success = "True"
         THEN (IF response.data.kind = "absent" THEN EmptyDict ELSE response.data)
         ELSE EmptyDict

\* data.get('flights', []): an AttributeError when data is no dict
read_flights(data) ==
    IF data.kind # "dict" THEN [raised |-> TRUE, value |-> FlightsAbsent]
    ELSE IF data.flights.kind = "absent" THEN [raised |-> FALSE, value |-> [kind |-> "list", items |-> <<>>]]
    ELSE [raised |-> FALSE, value |-> data.flights]

\* ------------------------------------------------------- URL and prompts

\* the URL with the cabin class as given
build_url_raw_cabin(origin, destination, formatted_date, adults, cabin_class) ==
    <<"https://www.skyscanner.co.in/transport/flights/">> \o lower(origin)
        \o <<"/">> \o lower(destination)
        \o <<"/">> \o formatted_date
        \o <<"/?adultsv2=">> \o str(adults)
        \o <<"&cabinclass=">> \o cabin_class

\* SKYSCANNER_URL_TEMPLATE.format(...) of search_flights
build_url(origin, destination, formatted_date, adults, cabin_class) ==
    <<"https://www.skyscanner.co.in/transport/flights/">> \o lower(origin)
        \o <<"/">> \o lower(destination)
        \o <<"/">> \o formatted_date
        \o <<"/?adultsv2=">> \o str(adults)
        \o <<"&cabinclass=">> \o lower(cabin_class)

\* the extraction prompt
extract_prompt(origin, destination, departure_date) ==
    [origin |-> origin, destination |-> destination, departure_date |-> departure_date]

\* the "no flights" return value
fallback(flight_url) == <<"No flights found. [Check Skyscanner](">> \o flight_url \o <<")">>

\* the prompt without the offers
analysis_prompt_no_flights(origin, destination, flights, flight_url) ==
    [origin |-> upper(origin), destination |-> upper(destination),
     flights |-> [kind |-> "absent", items |-> <<>>], url |-> flight_url]

\* the prompt handed to agent.run
analysis_prompt(origin, destination, flights, flight_url) ==
    [origin |-> upper(origin), destination |-> upper(destination),
     flights |-> flights, url |-> flight_url]

NoPrompt == [origin |-> <<>>, destination |-> <<>>, flights |-> FlightsAbsent, url |-> <<>>]
NoExtractCall == [url |-> <<>>, prompt |-> extract_prompt(<<>>, <<>>, <<>>), api_key |-> ""]

\* What agent.run does: returns a response with some content, or raises.
AgentOutcomes == {[raised |-> FALSE, content |-> <<"recommendation A">>],
                  [raised |-> FALSE, content |-> <<"recommendation B">>],
                  [raised |-> TRUE, content |-> <<>>]}
NoAnalysis == [raised |-> FALSE, content |-> <<>>]

\* what search_flights returns on the analysis path
analysis_result(analysis) == analysis.content

\* ---------------------------------------------------------- session, UI

ModelOptions == {"o3-mini", "gpt-4o", "gpt-3.5-turbo"}
FirecrawlKeyInputs == {"", "fc-A", "fc-B"}
OpenAIKeyInputs == {"", "sk-A"}
Missing == "<missing>"

NoAgent == [present |-> FALSE, firecrawl_api_key |-> "", openai_api_key |-> "", model_id |-> ""]

\* FlightBookingAgent.__init__
FlightBookingAgent(firecrawl_api_key, openai_api_key, model_id) ==
    [present |-> TRUE, firecrawl_api_key |-> firecrawl_api_key,
     openai_api_key |-> openai_api_key, model_id |-> model_id]

\* st.session_state.get(key, default)
session_get(v, default) == IF v = Missing THEN default ELSE v

\* create_flight_agent without the test for an agent in the session
create_flight_agent_always(ss) ==
    [ss EXCEPT !.flight_agent =
        [present |-> TRUE,
         firecrawl_api_key |-> IF ss.firecrawl_key = Missing THEN "" ELSE ss.firecrawl_key,
         openai_api_key |-> IF ss.openai_key = Missing THEN "" ELSE ss.openai_key,
         model_id |-> IF ss.model_id = Missing THEN "gpt-3.5-turbo" ELSE ss.model_id]]

\* create_flight_agent: builds the agent only when the session has none
create_flight_agent(ss) ==
    IF ~ss.flight_agent.present
    THEN [ss EXCEPT !.flight_agent =
             FlightBookingAgent(session_get(ss.firecrawl_key, ""),
                                session_get(ss.openai_key, ""),
                                session_get(ss.model_id, "gpt-3.5-turbo"))]
    ELSE ss

\* main, the sidebar: the model choice is stored on every run, the keys and
\* the agent only when both keys are non-empty
sidebar(ss, model_id, firecrawl_key, openai_key) ==
    LET s1 == [ss EXCEPT !.model_id = model_id]
    IN  IF firecrawl_key # "" /\ openai_key # ""
        THEN create_flight_agent([s1 EXCEPT !.firecrawl_key = firecrawl_key,
                                            !.openai_key = openai_key])
        ELSE s1

BlankUI == [error |-> "", success |-> FALSE, markdown |-> <<>>]

\* the success banner and the result whatever happened
present_always_success(raised, result) ==
    [error |-> "", success |-> TRUE, markdown |-> result]

\* main, after search_flights: the success banner and the result on a
\* return, st.error on an exception
present(raised, result) ==
    IF raised THEN [error |-> "An error occurred", success |-> FALSE, markdown |-> <<>>]
    ELSE [error |-> "", success |-> TRUE, markdown |-> result]

\* ----------------------------------------------------------------- inputs

\* str(date) of a date: zero-padded YYYY-MM-DD
iso(y, m, d) ==
    <<DigitChars[((y \div 1000) % 10) + 1], DigitChars[((y \div 100) % 10) + 1],
      DigitChars[((y \div 10) % 10) + 1], DigitChars[(y % 10) + 1], "-">>
        \o Pad2(m) \o <<"-">> \o Pad2(d)

\* what the form's text fields, date picker and select boxes deliver
OriginInputs == {<<>>, <<"L","K","O">>, <<"l","k","o">>}
DestinationInputs == {<<>>, <<"D","E","L">>, <<"D","e","l">>}
CabinOptions == {<<"e","c","o","n","o","m","y">>,
                 <<"p","r","e","m","i","u","m","_","e","c","o","n","o","m","y">>,
                 <<"b","u","s","i","n","e","s","s">>,
                 <<"f","i","r","s","t">>}
PickedDates == {iso(2025, 3, 25), iso(2024, 2, 29)}

\* what another caller of search_flights may pass
CalledOrigins == {<<"L","K","O">>, <<"l","k","o">>, <<"L","k","o">>}
CalledDestinations == {<<"D","E","L">>, <<"d","e","l">>}
CalledCabins == {<<"e","c","o","n","o","m","y">>, <<"E","c","o","n","o","m","y">>,
                 <<"F","I","R","S","T">>}
CalledDates ==
    {iso(2025, 3, 25), iso(2025, 2, 30), iso(2025, 13, 1),
     <<"2","0","2","5","-","3","-","5">>, <<"2","5","-","0","3","-","2","0","2","5">>}

\* date strings for _format_date alone: every zero-padded combination of a
\* year, a month number and a day number, in and out of range, strings with
\* narrower or space-padded fields, and strings of another shape
InputYears == {0, 1, 1900, 2000, 2024, 2025, 9999}
PaddedDates == {iso(y, m, d) : y \in InputYears, m \in 0..MaxMonthInput, d \in 0..MaxDayInput}
NarrowDates == {<<"2","0","2","5","-","3","-","5">>,
                <<"2","0","2","5","-","0","3","-"," ","5">>,
                <<"2","0","2","4","-","2","-","2","9">>,
                <<"2","0","2","5","-","1","2","-","7">>,
                <<"2","0","2","5","-","2","-","3","0">>,
                <<"2","0","2","5","-","0","3","-"," ","0">>}
OtherDates == {<<>>,
               <<"2","5","-","0","3","-","2","0","2","5">>,
               <<"2","0","2","5","/","0","3","/","2","5">>,
               <<"2","0","2","5","-","0","3","-","2","5"," ">>,
               <<" ","2","0","2","5","-","0","3","-","2","5">>,
               <<"2","0","2","5","-","0","3","-","2","a">>,
               <<"2","0","2","5","0","3","2","5">>,
               <<"2","0","2","5","-","0","3">>,
               <<"0","2","0","2","5","-","0","1","-","0","1">>,
               <<"2","0","2","5","-","0","1","1","-","0","1">>,
               <<"2","0","2","5","-","1","-","0","1","5">>,
               <<"2","0","2","5","-"," ","3","-","2","5">>}
DateInputs == PaddedDates \cup NarrowDates \cup OtherDates

NoArgs == [origin |-> <<>>, destination |-> <<>>, departure_date |-> <<>>,
           adults |-> 0, cabin_class |-> <<>>]

\* ------------------------------------------------------------------ state

VARIABLES
    session,         \* st.session_state: model_id, firecrawl_key, openai_key, flight_agent
    ui,              \* what the page shows after the search button
    active,          \* a search_flights call is in progress or awaits its caller
    caller,          \* "main" (the button) or "direct" (another caller), "" before any call
    pc,              \* Idle, DateFormatted, URLBuilt, Extracted, NoOffers, Composed, Raised
    self,            \* the FlightBookingAgent the call runs on
    args,            \* origin, destination, departure_date, adults, cabin_class
    formatted_date,
    flight_url,
    extract_call,    \* the arguments of firecrawl.extract
    response,        \* what firecrawl.extract did
    flights,
    prompt,          \* the argument of agent.run
    analysis,        \* what agent.run did
    result,          \* the returned str
    error,           \* the exception that left search_flights, "" if none
    extractCalls,    \* calls of firecrawl.extract in this run
    agentCalls       \* calls of agent.run in this run

vars == <<session, ui, active, caller, pc, self, args, formatted_date, flight_url,
          extract_call, response, flights, prompt, analysis, result, error,
          extractCalls, agentCalls>>

runVars == <<formatted_date, flight_url, extract_call, response, flights, prompt,
             analysis, result, error, extractCalls, agentCalls>>

FreshRun ==
    /\ formatted_date' = <<>>
    /\ flight_url' = <<>>
    /\ extract_call' = NoExtractCall
    /\ response' = NoResponse
    /\ flights' = FlightsAbsent
    /\ prompt' = NoPrompt
    /\ analysis' = NoAnalysis
    /\ result' = <<>>
    /\ error' = ""
    /\ extractCalls' = 0
    /\ agentCalls' = 0

Init ==
    /\ session = [model_id |-> Missing, firecrawl_key |-> Missing, openai_key |-> Missing,
                  flight_agent |-> NoAgent]
    /\ ui = BlankUI
    /\ active = FALSE
    /\ caller = ""
    /\ pc = "Idle"
    /\ self = NoAgent
    /\ args = NoArgs
    /\ formatted_date = <<>>
    /\ flight_url = <<>>
    /\ extract_call = NoExtractCall
    /\ response = NoResponse
    /\ flights = FlightsAbsent
    /\ prompt = NoPrompt
    /\ analysis = NoAnalysis
    /\ result = <<>>
    /\ error = ""
    /\ extractCalls = 0
    /\ agentCalls = 0

\* ---------------------------------------------------------------- actions

\* One run of the script main() up to the call of search_flights: the
\* sidebar, then the button with its two checks.
Main(model_id, firecrawl_key, openai_key, origin, destination, departure_date, adults, cabin_class, button) ==
    /\ ~active
    /\ session' = sidebar(session, model_id, firecrawl_key, openai_key)
    /\ FreshRun
    /\ pc' = "Idle"
    /\ IF ~button
       THEN /\ ui' = BlankUI
            /\ active' = FALSE /\ caller' = "" /\ self' = NoAgent /\ args' = NoArgs
       ELSE IF ~session'.flight_agent.present
       THEN /\ ui' = [BlankUI EXCEPT !.error = "Please enter your API keys"]
            /\ active' = FALSE /\ caller' = "" /\ self' = NoAgent /\ args' = NoArgs
       ELSE IF origin = <<>> \/ destination = <<>>
       THEN /\ ui' = [BlankUI EXCEPT !.error = "Please enter both origin and destination"]
            /\ active' = FALSE /\ caller' = "" /\ self' = NoAgent /\ args' = NoArgs
       ELSE /\ ui' = BlankUI
            /\ active' = TRUE
            /\ caller' = "main"
            /\ self' = session'.flight_agent
            /\ args' = [origin |-> origin, destination |-> destination,
                        departure_date |-> departure_date, adults |-> adults,
                        cabin_class |-> cabin_class]

\* search_flights called on an agent by a caller other than main
CallSearchFlights(agent, origin, destination, departure_date, adults, cabin_class) ==
    /\ ~active
    /\ FreshRun
    /\ pc' = "Idle"
    /\ active' = TRUE
    /\ caller' = "direct"
    /\ self' = agent
    /\ args' = [origin |-> origin, destination |-> destination,
                departure_date |-> departure_date, adults |-> adults,
                cabin_class |-> cabin_class]
    /\ UNCHANGED <<session, ui>>

\* formatted_date = self._format_date(departure_date)
FormatDate ==
    /\ active /\ pc = "Idle"
    /\ LET r == format_date(args.departure_date)
       IN  IF r.raised
           THEN /\ pc' = "Raised" /\ error' = "ValueError"
                /\ UNCHANGED formatted_date
           ELSE /\ pc' = "DateFormatted" /\ formatted_date' = r.value
                /\ UNCHANGED error
    /\ UNCHANGED <<session, ui, active, caller, self, args, flight_url, extract_call,
                   response, flights, prompt, analysis, result, extractCalls, agentCalls>>

\* flight_url = SKYSCANNER_URL_TEMPLATE.format(...)
BuildURL ==
    /\ active /\ pc = "DateFormatted"
    /\ flight_url' = build_url(args.origin, args.destination, formatted_date,
                               args.adults, args.cabin_class)
    /\ pc' = "URLBuilt"
    /\ UNCHANGED <<session, ui, active, caller, self, args, formatted_date, extract_call,
                   response, flights, prompt, analysis, result, error, extractCalls,
                   agentCalls>>

\* the extraction step calling the provider again after an exception
ExtractRetry(outcome) ==
    /\ active /\ pc = "URLBuilt"
    /\ extract_call' = [url |-> flight_url,
                        prompt |-> extract_prompt(args.origin, args.destination,
                                                  args.departure_date),
                        api_key |-> self.firecrawl_api_key]
    /\ extractCalls' = extractCalls + 1
    /\ response' = outcome
    /\ IF outcome.kind = "raise" /\ extractCalls < 2
       THEN UNCHANGED <<pc, error, flights>>
       ELSE LET r == read_flights(fetch_flight_data(outcome))
            IN  IF r.raised
                THEN /\ pc' = "Raised" /\ error' = "AttributeError"
                     /\ UNCHANGED flights
                ELSE /\ pc' = "Extracted" /\ flights' = r.value
                     /\ UNCHANGED error
    /\ UNCHANGED <<session, ui, active, caller, self, args, formatted_date, flight_url,
                   prompt, analysis, result, agentCalls>>

\* data = self._fetch_flight_data(flight_url, prompt, schema);
\* flights = data.get('flights', [])
Extract(outcome) ==
    /\ active /\ pc = "URLBuilt"
    /\ extract_call' = [url |-> flight_url,
                        prompt |-> extract_prompt(args.origin, args.destination,
                                                  args.departure_date),
                        api_key |-> self.firecrawl_api_key]
    /\ extractCalls' = extractCalls + 1
    /\ response' = outcome
    /\ LET r == read_flights(fetch_flight_data(outcome))
       IN  IF r.raised
           THEN /\ pc' = "Raised" /\ error' = "AttributeError"
                /\ UNCHANGED flights
           ELSE /\ pc' = "Extracted" /\ flights' = r.value
                /\ UNCHANGED error
    /\ UNCHANGED <<session, ui, active, caller, self, args, formatted_date, flight_url,
                   prompt, analysis, result, agentCalls>>

\* if not flights: return the "No flights found" message
ReturnNoFlights ==
    /\ active /\ pc = "Extracted"
    /\ ~Truthy(flights)
    /\ result' = fallback(flight_url)
    /\ pc' = "NoOffers"
    /\ UNCHANGED <<session, ui, active, caller, self, args, formatted_date, flight_url,
                   extract_call, response, flights, prompt, analysis, error,
                   extractCalls, agentCalls>>

\* analysis = self.agent.run(...); return analysis.content
RunAgent(outcome) ==
    /\ active /\ pc = "Extracted"
    /\ Truthy(flights)
    /\ prompt' = analysis_prompt(args.origin, args.destination, flights, flight_url)
    /\ agentCalls' = agentCalls + 1
    /\ analysis' = outcome
    /\ IF outcome.raised
       THEN /\ pc' = "Raised" /\ error' = "AgentError"
            /\ UNCHANGED result
       ELSE /\ pc' = "Composed" /\ result' = analysis_result(outcome)
            /\ UNCHANGED error
    /\ UNCHANGED <<session, ui, active, caller, self, args, formatted_date, flight_url,
                   extract_call, response, flights, extractCalls>>

Ended == pc \in {"NoOffers", "Composed", "Raised"}

\* main after the call: st.success and st.markdown, or the except branch
Present ==
    /\ active /\ caller = "main" /\ Ended
    /\ ui' = present(pc = "Raised", result)
    /\ active' = FALSE
    /\ UNCHANGED <<session, caller, pc, self, args>>
    /\ UNCHANGED runVars

\* the other caller gets the return value or the exception
DirectReturn ==
    /\ active /\ caller = "direct" /\ Ended
    /\ active' = FALSE
    /\ UNCHANGED <<session, ui, caller, pc, self, args>>
    /\ UNCHANGED runVars

\* The application: the script main() with every form input, every provider
\* and agent outcome, under one model choice and one pair of keys.
Next ==
    \/ \E firecrawl_key \in {"", "fc-A"}, openai_key \in {"", "sk-A"} :
            Main("gpt-4o", firecrawl_key, openai_key, <<"L","K","O">>, <<"D","E","L">>,
                 iso(2025, 3, 25), 1, <<"e","c","o","n","o","m","y">>, FALSE)
    \/ \E firecrawl_key \in {"", "fc-A"}, openai_key \in {"", "sk-A"},
          origin \in OriginInputs, destination \in DestinationInputs,
          departure_date \in PickedDates, adults \in 1..MaxAdults,
          cabin_class \in CabinOptions :
            Main("gpt-4o", firecrawl_key, openai_key, origin, destination,
                 departure_date, adults, cabin_class, TRUE)
    \/ FormatDate
    \/ BuildURL
    \/ \E outcome \in ProviderOutcomes : Extract(outcome)
    \/ ReturnNoFlights
    \/ \E outcome \in AgentOutcomes : RunAgent(outcome)
    \/ Present

Spec == Init /\ [][Next]_vars

\* The session in full: every model choice and every pair of keys on every
\* rerun of the script, with the form left at its default values.
NextSession ==
    \/ \E model_id \in ModelOptions, firecrawl_key \in FirecrawlKeyInputs,
          openai_key \in OpenAIKeyInputs, button \in BOOLEAN :
            Main(model_id, firecrawl_key, openai_key, <<"L","K","O">>, <<"D","E","L">>,
                 iso(2025, 3, 25), 1, <<"e","c","o","n","o","m","y">>, button)
    \/ FormatDate
    \/ BuildURL
    \/ \E outcome \in ProviderOutcomes : Extract(outcome)
    \/ ReturnNoFlights
    \/ \E outcome \in AgentOutcomes : RunAgent(outcome)
    \/ Present

SpecSession == Init /\ [][NextSession]_vars

\* search_flights as a method: called, outside the page, on an agent built
\* with the default model, with arguments in any letter case and dates that
\* no date picker produced.
NextCall ==
    \/ \E origin \in CalledOrigins, destination \in CalledDestinations,
          departure_date \in CalledDates, adults \in 1..MaxAdults,
          cabin_class \in CalledCabins :
            CallSearchFlights(FlightBookingAgent("fc-A", "sk-A", "gpt-3.5-turbo"),
                              origin, destination, departure_date, adults, cabin_class)
    \/ FormatDate
    \/ BuildURL
    \/ \E outcome \in ProviderOutcomes : Extract(outcome)
    \/ ReturnNoFlights
    \/ \E outcome \in AgentOutcomes : RunAgent(outcome)
    \/ DirectReturn

SpecCall == Init /\ [][NextCall]_vars

\* _format_date alone, on every date string of DateInputs
InitFormatDate ==
    /\ session = [model_id |-> Missing, firecrawl_key |-> Missing, openai_key |-> Missing,
                  flight_agent |-> NoAgent]
    /\ ui = BlankUI
    /\ active = TRUE
    /\ caller = "direct"
    /\ pc = "Idle"
    /\ self = FlightBookingAgent("fc-A", "sk-A", "gpt-3.5-turbo")
    /\ \E d \in DateInputs :
          args = [origin |-> <<"L","K","O">>, destination |-> <<"D","E","L">>,
                  departure_date |-> d, adults |-> 1,
                  cabin_class |-> <<"e","c","o","n","o","m","y">>]
    /\ formatted_date = <<>>
    /\ flight_url = <<>>
    /\ extract_call = NoExtractCall
    /\ response = NoResponse
    /\ flights = FlightsAbsent
    /\ prompt = NoPrompt
    /\ analysis = NoAnalysis
    /\ result = <<>>
    /\ error = ""
    /\ extractCalls = 0
    /\ agentCalls = 0

NextFormatDate == FormatDate

SpecFormatDate == InitFormatDate /\ [][NextFormatDate]_vars

\* ----------------------------------------------------------------- claims

\* the offer list read from the response is a list with at least one offer
HasOffers == flights.kind = "list" /\ Len(flights.items) >= 1

\* sub occurs in s as a contiguous piece
Contains(s, sub) ==
    \E i \in 1..(Len(s) - Len(sub) + 1) : SubSeq(s, i, i + Len(sub) - 1) = sub

\* the "No flights found" message around a URL
IsFallbackFor(r, url) ==
    /\ Len(r) = Len(url) + 2
    /\ r[1] = "No flights found. [Check Skyscanner]("
    /\ SubSeq(r, 2, Len(r) - 1) = url
    /\ r[Len(r)] = ")"

Returned == pc \in {"NoOffers", "Composed"}

\* C1: every run of search_flights that returns a value returns the agent's
\* content exactly when the extracted offer list is non-empty, and the "No
\* flights found" message otherwise; the agent ran in the first case only.
C1_ResultMatchesOffers ==
    Returned =>
        /\ (pc = "Composed") <=> HasOffers
        /\ pc = "Composed" =>
              /\ agentCalls = 1 /\ ~analysis.raised
              /\ result = analysis.content
              /\ ~IsFallbackFor(result, flight_url)
        /\ pc = "NoOffers" =>
              /\ agentCalls = 0 /\ analysis = NoAnalysis
              /\ IsFallbackFor(result, flight_url)

C1_Witness ==
    /\ pc = "Composed" /\ ~active /\ Len(flights.items) = MaxOffers
    /\ result = <<"recommendation B">>

\* C2: no exception of the extraction step (the provider call and the read
\* of 'flights') leaves search_flights: once firecrawl.extract was called
\* the run is not ended by an exception unless the agent raised it.
C2_ExtractionNeverRaises ==
    (extractCalls >= 1 /\ pc = "Raised") => error = "AgentError"

\* the three provider outcomes with no offers that C3 names
NoOfferCase ==
    \/ response.kind = "raise"
    \/ response.kind = "dict" /\ response.success = "False"
    \/ /\ response.kind = "dict" /\ response.success = "True"
       /\ response.data.kind = "dict" /\ response.data.flights.kind = "list"
       /\ response.data.flights.items = <<>>

\* C3: when the extraction yields no offers (an empty list under success, a
\* success of false, an exception of the call) the run can only end in
\* NoOffers, returning the "No flights found" message with the URL of this
\* run, and the agent is never run.
C3_NoOffersFallback ==
    /\ (extractCalls = 1 /\ NoOfferCase) =>
          /\ pc \in {"Extracted", "NoOffers"}
          /\ flights = [kind |-> "list", items |-> <<>>]
    /\ (pc \in {"Extracted", "NoOffers", "Composed"} /\ ~HasOffers) =>
          /\ pc \in {"Extracted", "NoOffers"}
          /\ agentCalls = 0 /\ prompt = NoPrompt /\ analysis = NoAnalysis /\ error = ""
          /\ pc = "NoOffers" =>
                /\ IsFallbackFor(result, flight_url)
                /\ Contains(result, extract_call.url)
                /\ flight_url = build_url(args.origin, args.destination, formatted_date,
                                          args.adults, args.cabin_class)

C3_Witness ==
    /\ pc = "NoOffers" /\ response.kind = "raise" /\ ~active /\ ui.success
    /\ ui.markdown = result

\* the provider answered success with a list of at least one offer
SuccessWithOffers ==
    /\ response.kind = "dict" /\ response.success = "True"
    /\ response.data.kind = "dict" /\ response.data.flights.kind = "list"
    /\ Len(response.data.flights.items) >= 1

\* C4: when the extraction returned success with a non-empty list, the run
\* does not end before the agent was run, the agent is run once, its prompt
\* holds the extracted list and the URL of this run, and what the agent
\* answered is returned unchanged.
C4_ComposedOnce ==
    (extractCalls = 1 /\ SuccessWithOffers) =>
        /\ pc \in {"Extracted", "Composed", "Raised"}
        /\ flights = response.data.flights
        /\ pc = "Extracted" => agentCalls = 0
        /\ pc \in {"Composed", "Raised"} =>
              /\ agentCalls = 1
              /\ prompt.flights = response.data.flights
              /\ prompt.url = flight_url
              /\ prompt.url = extract_call.url
              /\ prompt.origin = upper(args.origin)
              /\ prompt.destination = upper(args.destination)
        /\ pc = "Composed" <=> (agentCalls = 1 /\ ~analysis.raised)
        /\ pc = "Composed" => result = analysis.content

C4_Witness ==
    /\ pc = "Composed" /\ SuccessWithOffers /\ agentCalls = 1
    /\ result = <<"recommendation A">> /\ prompt.flights.items = <<Offer2>>

\* C5: when agent.run raises, the exception leaves search_flights: nothing is
\* returned, the agent was run once, and main shows an error and neither the
\* success banner nor a result.
C5_AgentFailurePropagates ==
    (agentCalls >= 1 /\ analysis.raised) =>
        /\ pc = "Raised" /\ error = "AgentError"
        /\ result = <<>>
        /\ agentCalls = 1 /\ extractCalls = 1
        /\ ~ui.success /\ ui.markdown = <<>>
        /\ (caller = "main" /\ ~active) => ui.error = "An error occurred"

C5_Witness ==
    /\ caller = "main" /\ ~active /\ error = "AgentError"
    /\ ui.error = "An error occurred" /\ analysis.raised

\* C6: when the departure date does not parse, search_flights ends with the
\* parser's exception before the URL is built: nothing is returned, and
\* neither firecrawl.extract nor agent.run is called.
C6_BadDateAborts ==
    (caller # "" /\ pc # "Idle" /\ ~strptime(args.departure_date).ok) =>
        /\ pc = "Raised" /\ error = "ValueError"
        /\ formatted_date = <<>> /\ flight_url = <<>>
        /\ result = <<>>
        /\ extractCalls = 0 /\ extract_call = NoExtractCall /\ response = NoResponse
        /\ agentCalls = 0 /\ prompt = NoPrompt

C6_Witness ==
    /\ pc = "Raised" /\ error = "ValueError" /\ ~active
    /\ args.departure_date = iso(2025, 2, 30)

\* the order of the states of a run
RunEdges == {<<"Idle", "DateFormatted">>, <<"DateFormatted", "URLBuilt">>,
             <<"URLBuilt", "Extracted">>, <<"Extracted", "NoOffers">>,
             <<"Extracted", "Composed">>}

\* what one step of a run may do
C7_Step ==
    \* a run moves along the order of the states, or is ended by an exception
    /\ (active /\ pc' # pc) => (active' /\ (<<pc, pc'>> \in RunEdges \/ pc' = "Raised"))
    \* a state once left is entered again only by a new run
    /\ (~active /\ pc' # pc) => (pc' = "Idle" /\ extractCalls' = 0 /\ agentCalls' = 0)
    \* an ended run stays where it ended
    /\ (active /\ pc \in {"NoOffers", "Composed", "Raised"}) => pc' = pc
    \* one provider call at most, made on leaving URLBuilt
    /\ extractCalls' <= 1
    /\ extractCalls' > extractCalls => (pc = "URLBuilt" /\ pc' \in {"Extracted", "Raised"})
    /\ pc' \in {"Extracted", "NoOffers", "Composed"} => extractCalls' = 1
    \* one agent call at most, made on leaving Extracted, after the provider call
    /\ agentCalls' <= 1
    /\ agentCalls' > agentCalls =>
          (pc = "Extracted" /\ extractCalls = 1 /\ pc' \in {"Composed", "Raised"})
    /\ pc' = "Composed" => agentCalls' = 1
    /\ pc' = "NoOffers" => agentCalls' = 0

SameButCase(a, b) ==
    /\ Len(a) = Len(b)
    /\ \A i \in 1..Len(a) :
          \/ a[i] = b[i]
          \/ \E k \in 1..26 : {a[i], b[i]} = {UpperChars[k], LowerChars[k]}

AllLower(s) == \A i \in 1..Len(s) : ~IsIn(UpperChars, s[i])

\* C8: the URL of a run is the URL built from any origin, destination and
\* cabin class that differ from the run's in letter case only, the all
\* lower-case ones among them; it is the URL sent to the provider and the
\* one in the "No flights found" message or in the agent's prompt.
C8_UrlIgnoresCase ==
    pc \in {"URLBuilt", "Extracted", "NoOffers", "Composed"} =>
        /\ \A o \in CalledOrigins \cup OriginInputs,
              d \in CalledDestinations \cup DestinationInputs,
              c \in CalledCabins \cup CabinOptions :
                (SameButCase(o, args.origin) /\ SameButCase(d, args.destination)
                    /\ SameButCase(c, args.cabin_class))
                => build_url(o, d, formatted_date, args.adults, c) = flight_url
        /\ \E o \in CalledOrigins \cup OriginInputs,
              d \in CalledDestinations \cup DestinationInputs,
              c \in CalledCabins \cup CabinOptions :
                /\ AllLower(o) /\ AllLower(d) /\ AllLower(c)
                /\ SameButCase(o, args.origin) /\ SameButCase(d, args.destination)
                /\ SameButCase(c, args.cabin_class)
                /\ flight_url = <<"https://www.skyscanner.co.in/transport/flights/">> \o o
                       \o <<"/">> \o d \o <<"/">> \o formatted_date
                       \o <<"/?adultsv2=">> \o str(args.adults) \o <<"&cabinclass=">> \o c
        /\ extractCalls = 1 => extract_call.url = flight_url
        /\ pc = "NoOffers" => IsFallbackFor(result, flight_url)
        /\ pc = "Composed" => prompt.url = flight_url

C8_Witness ==
    /\ pc = "NoOffers"
    /\ args.origin = <<"L","k","o">> /\ args.destination = <<"D","E","L">>
    /\ args.cabin_class = <<"E","c","o","n","o","m","y">>
    /\ args.departure_date = iso(2025, 3, 25) /\ args.adults = 1
    /\ flight_url = <<"https://www.skyscanner.co.in/transport/flights/",
                      "l","k","o", "/", "d","e","l", "/", "2","5","0","3","2","5",
                      "/?adultsv2=", "1", "&cabinclass=", "e","c","o","n","o","m","y">>

\* the days of the months of the Gregorian calendar
MonthLengths(y) ==
    <<31, IF (y % 4 = 0 /\ y % 100 # 0) \/ y % 400 = 0 THEN 29 ELSE 28,
      31, 30, 31, 30, 31, 31, 30, 31, 30, 31>>

IsCalendarDate(y, m, d) ==
    /\ y \in 1..9999 /\ m \in 1..12
    /\ d \in 1..MonthLengths(y)[m]

AllDigits(s) == \A i \in 1..Len(s) : IsDigit(s[i])

\* s is a zero-padded YYYY-MM-DD naming a date of the calendar
ValidYMD(s) ==
    /\ Len(s) = 10 /\ s[5] = "-" /\ s[8] = "-"
    /\ AllDigits(SubSeq(s, 1, 4)) /\ AllDigits(SubSeq(s, 6, 7)) /\ AllDigits(SubSeq(s, 9, 10))
    /\ IsCalendarDate(int(SubSeq(s, 1, 4)), int(SubSeq(s, 6, 7)), int(SubSeq(s, 9, 10)))

\* the six digits DDMMYY of a date
DDMMYY(y, m, d) ==
    <<DigitChars[(d \div 10) + 1], DigitChars[(d % 10) + 1],
      DigitChars[(m \div 10) + 1], DigitChars[(m % 10) + 1],
      DigitChars[((y % 100) \div 10) + 1], DigitChars[(y % 10) + 1]>>

\* the month and day fields of s when its month field has ml characters
MonthField(s, ml) == SubSeq(s, 6, 5 + ml)
DayField(s, ml) ==
    LET df == SubSeq(s, 7 + ml, Len(s))
    IN  IF Len(df) = 2 /\ df[1] = " " THEN Tail(df) ELSE df

\* s names a date of the calendar with a 4-digit year, a month of ml digits
\* and a day of one or two digits or of a space and a digit
NamesDate(s, ml) ==
    /\ Len(s) \in {7 + ml, 8 + ml}
    /\ s[5] = "-" /\ s[6 + ml] = "-"
    /\ AllDigits(SubSeq(s, 1, 4)) /\ AllDigits(MonthField(s, ml)) /\ AllDigits(DayField(s, ml))
    /\ IsCalendarDate(int(SubSeq(s, 1, 4)), int(MonthField(s, ml)), int(DayField(s, ml)))

Formatted == pc \in {"DateFormatted", "Raised"}

C10_Step ==
    /\ session.flight_agent.present => session'.flight_agent = session.flight_agent
    /\ (active' /\ ~active) => (self' = session'.flight_agent /\ self'.present)
    /\ active => self' = self

\* C10: once the session holds an agent, no rerun of the script replaces or
\* changes it, whatever keys and model the sidebar holds, and every search
\* started from the page runs on that agent.
C10_AgentCreatedOnce == [][C10_Step]_vars

C10_Witness ==
    /\ active /\ caller = "main" /\ pc = "Composed"
    /\ self = session.flight_agent
    /\ self.model_id = "o3-mini" /\ session.model_id = "gpt-4o"
    /\ self.firecrawl_api_key = "fc-A" /\ session.firecrawl_key = "fc-B"

====
